---- MODULE Spec2Model ----
(***************************************************************************)
(* A model of src/main.py: a FastAPI application with three StaticFiles    *)
(* mounts (/static, /dist, /assets), one Jinja2-templated page at "/" and  *)
(* a uvicorn entry point.                                                  *)
(*                                                                         *)
(* main.py is seventeen lines of framework calls, so each definition       *)
(* below models what the call on the named line of main.py does:           *)
(*   FastAPI()            registers the documentation routes               *)
(*   app.mount(.., StaticFiles(directory=d)) checks d, appends a Mount     *)
(*   Jinja2Templates(..)  creates a jinja2 environment with a cache        *)
(*   @app.get("/")        appends the route of root()                      *)
(*   uvicorn.run(..)      binds the socket and serves                      *)
(*                                                                         *)
(* A URL path is the sequence of its "/"-separated segments after the      *)
(* leading slash: "/" is <<"">>, "/static" is <<"static">>, "/static/" is   *)
(* <<"static", "">>, "/static/../main.py" is <<"static", "..", "main.py">>. *)
(* A file-system path is the sequence of its components from the root.     *)
(*                                                                         *)
(* Assumptions on the environment: requests are GET requests without       *)
(* conditional or range headers; there are no symbolic links; files are    *)
(* readable; a template file that is present is a well-formed template;    *)
(* the disk does not change while a request is being handled.              *)
(***************************************************************************)
EXTENDS Integers, Sequences, FiniteSets, TLC

VARIABLES pc, exit, routes, configChecked, templateCache, disk, inflight

vars == <<pc, exit, routes, configChecked, templateCache, disk, inflight>>

\* Longest path below a mount prefix that a request may carry, in segments.
MaxSegs == 2
\* Number of distinct contents (versions) a file may have; 0 means absent.
MaxVer == 2
\* Number of requests that may be in flight at once.
MaxInflight == 2

(***************************************************************************)
(* The file system                                                         *)
(***************************************************************************)
Cwd == <<"srv">>

MountNames == {"static", "dist", "assets"}

MountDir(m) == Cwd \o <<m>>

TemplateDir == Cwd \o <<"templates">>

TemplateFile == TemplateDir \o <<"index.html">>

MainPy == Cwd \o <<"main.py">>

SiblingFile == Cwd \o <<"static.bak">>

StaticLogo == <<"srv", "static", "logo.png">>

StaticCssDir == <<"srv", "static", "css">>

StaticCssLogo == <<"srv", "static", "css", "logo.png">>

DistLogo == <<"srv", "dist", "logo.png">>

AssetsLogo == <<"srv", "assets", "logo.png">>

FilePaths ==
    {MainPy, SiblingFile, TemplateFile, StaticLogo, StaticCssLogo, DistLogo, AssetsLogo}

Parent(p) == SubSeq(p, 1, Len(p) - 1)

IsPrefix(a, b) == Len(a) <= Len(b) /\ SubSeq(b, 1, Len(a)) = a

IsDir(d, p) ==
    \/ p = <<>>
    \/ p = Cwd
    \/ p = TemplateDir
    \/ \E m \in d.dirs : p = MountDir(m)
    \/ p = StaticCssDir /\ "static" \in d.dirs

IsFile(d, p) == p \in FilePaths /\ d.files[p] > 0 /\ IsDir(d, Parent(p))

Content(d, p) == d.files[p]

\* A disk: which mount directories exist, and the content of every file.
MakeDisk(dirs, tpl, slogo, dlogo, main) ==
    [dirs  |-> dirs,
     files |-> [f \in FilePaths |->
                  CASE f = TemplateFile  -> tpl
                    [] f = StaticLogo    -> IF "static" \in dirs THEN slogo ELSE 0
                    [] f = StaticCssLogo -> IF "static" \in dirs THEN 1 ELSE 0
                    [] f = DistLogo      -> IF "dist" \in dirs THEN dlogo ELSE 0
                    [] f = AssetsLogo    -> IF "assets" \in dirs THEN 1 ELSE 0
                    [] f = MainPy        -> main
                    [] OTHER             -> 1]]

(***************************************************************************)
(* Path arithmetic: os.path.normpath, os.path.realpath, os.path.commonpath *)
(***************************************************************************)
\* os.path.normpath of a relative path given by its components: "" and "."
\* are dropped, ".." removes the component before it, and a ".." with nothing
\* before it (or after another "..") is kept. <<>> stands for ".".
RECURSIVE NormRelFrom(_, _)
NormRelFrom(acc, segs) ==
    IF segs = <<>> THEN acc
    ELSE LET c == Head(segs)
             acc2 == IF c \in {"", "."} THEN acc
                     ELSE IF c # ".." \/ acc = <<>> \/ acc[Len(acc)] = ".."
                          THEN Append(acc, c)
                          ELSE SubSeq(acc, 1, Len(acc) - 1)
         IN NormRelFrom(acc2, Tail(segs))

NormRel(segs) == NormRelFrom(<<>>, segs)

\* os.path.normpath of an absolute path: as above, but ".." at the root is
\* dropped.
RECURSIVE NormAbsFrom(_, _)
NormAbsFrom(acc, segs) ==
    IF segs = <<>> THEN acc
    ELSE LET c == Head(segs)
             acc2 == IF c \in {"", "."} THEN acc
                     ELSE IF c # ".." THEN Append(acc, c)
                     ELSE IF acc = <<>> THEN acc
                     ELSE SubSeq(acc, 1, Len(acc) - 1)
         IN NormAbsFrom(acc2, Tail(segs))

\* os.path.realpath of a path relative to the working directory (there are
\* no symbolic links).
RealPath(rel) == NormAbsFrom(<<>>, Cwd \o rel)

\* Whether the name a is a string prefix of the name b, for the names of the
\* model: "static" is a string prefix of "static.bak".
NamePrefix(a, b) == a = b \/ (a = "static" /\ b = "static.bak")

\* os.path.commonprefix([full, dir]) == dir: a comparison of characters, so
\* /srv/static.bak counts as inside /srv/static.
WithinDirectoryByPrefix(full, dir) ==
    /\ dir # <<>>
    /\ Len(dir) <= Len(full)
    /\ SubSeq(full, 1, Len(dir) - 1) = SubSeq(dir, 1, Len(dir) - 1)
    /\ NamePrefix(dir[Len(dir)], full[Len(dir)])

\* os.path.commonpath([full_path, directory]) == str(directory): directory is
\* full_path or one of its ancestors, compared component by component.
WithinDirectory(full, dir) == IsPrefix(dir, full)

(***************************************************************************)
(* Responses                                                               *)
(***************************************************************************)
Resp(status, kind, n, file, ctype) ==
    [status |-> status, kind |-> kind, n |-> n, file |-> file, ctype |-> ctype]

NoResp == Resp(0, "none", 0, <<>>, "")

\* HTTPException(status_code=404) and the router's default handler.
NotFound == Resp(404, "error", 404, <<>>, "application/json")

\* ServerErrorMiddleware's answer to an exception a handler raised.
ServerError == Resp(500, "error", 500, <<>>, "text/plain")

\* RedirectResponse of the router's redirect_slashes.
Redirect == Resp(307, "redirect", 307, <<>>, "")

\* FileResponse(full_path): the file's bytes, with the content type guessed
\* from the file name.
FileResp(d, full) ==
    Resp(200, "file", Content(d, full), full,
         IF full[Len(full)] = "logo.png" THEN "image/png" ELSE "text/plain")

\* _TemplateResponse: the page rendered from template version v.
PageResp(v) == Resp(200, "page", v, <<>>, "text/html")

\* The responses of FastAPI's documentation endpoints.
DocsResp(name) ==
    Resp(200, "docs", 0, <<>>,
         IF name = "openapi" THEN "application/json" ELSE "text/html")

(***************************************************************************)
(* The route table                                                         *)
(***************************************************************************)
Route(path, name) == [kind |-> "route", path |-> path, name |-> name, dir |-> ""]

\* FastAPI(): setup() registers /openapi.json, /docs, /docs/oauth2-redirect
\* and /redoc, in this order, before any route of the application.
DocsRoutes ==
    << Route(<<"openapi.json">>, "openapi"),
       Route(<<"docs">>, "swagger_ui_html"),
       Route(<<"docs", "oauth2-redirect">>, "swagger_ui_redirect"),
       Route(<<"redoc">>, "redoc_html") >>

\* A mount that serves another mount's directory.
MountRouteCrossed(m) ==
    [kind |-> "mount", path |-> <<m>>, name |-> m,
     dir |-> IF m = "static" THEN "dist" ELSE "static"]

\* app.mount("/m", StaticFiles(directory="m"), name="m")
MountRoute(m) == [kind |-> "mount", path |-> <<m>>, name |-> m, dir |-> m]

\* The root page registered under a path other than "/".
RootRouteMisplaced == Route(<<"index">>, "root")

\* @app.get("/") async def root
RootRoute == Route(<<"">>, "root")

\* A Route whose regex lacks the closing anchor: it matches every path that
\* begins with the route's path.
MatchesLoose(r, p) ==
    /\ p # <<>>
    /\ IF r.kind = "route" THEN IsPrefix(r.path, p)
       ELSE Len(p) > Len(r.path) /\ IsPrefix(r.path, p)

\* Route.matches and Mount.matches for a GET request: a Route's regex is
\* ^path$, a Mount's is ^path/(.*)$.
Matches(r, p) ==
    /\ p # <<>>
    /\ IF r.kind = "route" THEN p = r.path
       ELSE Len(p) > Len(r.path) /\ IsPrefix(r.path, p)

\* Router.app: the first route of the table that matches, 0 when none does.
FirstMatch(rt, p) ==
    IF \E i \in 1..Len(rt) : Matches(rt[i], p)
    THEN CHOOSE i \in 1..Len(rt) :
            Matches(rt[i], p) /\ \A j \in 1..(i - 1) : ~Matches(rt[j], p)
    ELSE 0

\* str.rstrip("/") of a URL path; <<>> is the empty string.
RECURSIVE StripSlashes(_)
StripSlashes(p) ==
    IF p = <<>> THEN <<>>
    ELSE IF p[Len(p)] = "" THEN StripSlashes(SubSeq(p, 1, Len(p) - 1))
    ELSE p

\* Router.app, redirect_slashes: the path tried when no route matched.
RedirectPath(p) == IF p[Len(p)] = "" THEN StripSlashes(p) ELSE Append(p, "")

\* Router.app for a path no route matches: a redirect when the path with its
\* trailing slash added or removed matches a route, else 404.
NoMatchResponse(rt, p) ==
    IF p # <<"">> /\ FirstMatch(rt, RedirectPath(p)) # 0 THEN Redirect ELSE NotFound

(***************************************************************************)
(* StaticFiles                                                             *)
(***************************************************************************)
\* StaticFiles.get_path: normpath(join(*route_path.split("/"))) of the path
\* below the mount prefix.
GetPath(tail) == NormRel(tail)

\* StaticFiles.lookup_path: the real path of directory/path and what is
\* there, "none" when it lies outside the directory or does not exist.
LookupPath(d, dir, path) ==
    LET full == RealPath(<<dir>> \o path)
        directory == RealPath(<<dir>>)
    IN  IF ~WithinDirectory(full, directory) THEN [full |-> <<>>, kind |-> "none"]
        ELSE IF IsFile(d, full) THEN [full |-> full, kind |-> "file"]
        ELSE IF IsDir(d, full) THEN [full |-> full, kind |-> "dir"]
        ELSE [full |-> <<>>, kind |-> "none"]

\* A get_response that serves whatever lookup_path found, without asking
\* whether it is a regular file.
GetResponseAnyStat(d, dir, tail) ==
    LET found == LookupPath(d, dir, GetPath(tail))
    IN  IF found.kind = "file" THEN FileResp(d, found.full)
        ELSE IF found.kind = "dir" THEN Resp(200, "listing", 0, found.full, "text/html")
        ELSE NotFound

\* StaticFiles.get_response with html=False: a regular file is served, a
\* directory or a missing path is a 404.
GetResponse(d, dir, tail) ==
    LET found == LookupPath(d, dir, GetPath(tail))
    IN  IF found.kind = "file" THEN FileResp(d, found.full) ELSE NotFound

\* StaticFiles.check_config: the mounted directory must still be a directory.
CheckConfig(d, dir) == IsDir(d, RealPath(<<dir>>))

(***************************************************************************)
(* Jinja2Templates                                                         *)
(***************************************************************************)
\* An environment that never reloads: a cached template is always current.
UpToDateNever(d, cache) == TRUE

\* jinja2 FileSystemLoader's uptodate(): the file still exists with the
\* modification time of the cached template.
UpToDate(d, cache) == IsFile(d, TemplateFile) /\ Content(d, TemplateFile) = cache

\* Environment.get_template("index.html") with auto_reload: the cached
\* template when it is up to date, else the file loaded anew; found is FALSE
\* for TemplateNotFound.
GetTemplate(d, cache) ==
    IF cache # 0 /\ UpToDate(d, cache)
    THEN [found |-> TRUE, ver |-> cache, cache |-> cache]
    ELSE IF IsFile(d, TemplateFile)
         THEN [found |-> TRUE, ver |-> Content(d, TemplateFile),
               cache |-> Content(d, TemplateFile)]
         ELSE [found |-> FALSE, ver |-> 0, cache |-> cache]

\* root(request): templates.TemplateResponse("index.html", {"request": request})
RootResponse(d, cache) ==
    LET t == GetTemplate(d, cache)
    IN  IF t.found THEN PageResp(t.ver) ELSE ServerError

(***************************************************************************)
(* Requests                                                                *)
(***************************************************************************)
Idle == [path |-> <<>>, stage |-> "idle", resp |-> NoResp]

AllIdle == \A i \in 1..MaxInflight : inflight[i] = Idle

TailSeg == {"", ".", "..", "css", "logo.png", "main.py", "static.bak"}

Tails == UNION {[1..n -> TailSeg] : n \in 0..MaxSegs}

MountRequests == {<<m>> \o t : m \in MountNames, t \in Tails}

OtherRequests ==
    { <<"", "">>, <<"nonexistent">>, <<"main.py">>, <<"static.bak">>,
      <<"index">>, <<"templates", "index.html">>,
      <<"openapi.json">>, <<"docs">>, <<"docs", "oauth2-redirect">>, <<"redoc">>,
      <<"docs", "">>, <<"redoc", "">>, <<"docs", "nonexistent">> }

\* The requests of the specification of file resolution and routing.
FileRequests == MountRequests \cup OtherRequests

\* The requests of the specification of the server's life.
LifeRequests ==
    { <<"">>, <<"static", "logo.png">>, <<"static", "..", "main.py">>,
      <<"dist", "logo.png">>, <<"nonexistent">>, <<"docs">> }

\* The requests of the specification of concurrent handling.
ConcRequests ==
    { <<"">>, <<"static", "logo.png">>, <<"static", "..", "main.py">>,
      <<"nonexistent">> }

(***************************************************************************)
(* Startup: main.py, line by line                                          *)
(***************************************************************************)
\* The program with uvicorn.run called before the root route is registered.
StartupOrderRunEarly ==
    <<"line6", "line7", "line8", "line9", "line10", "line16", "line12">>

\* The statements of main.py in the order they run.
StartupOrder ==
    <<"line6", "line7", "line8", "line9", "line10", "line12", "line16">>

NextLine(l) ==
    LET k == CHOOSE i \in 1..Len(StartupOrder) : StartupOrder[i] = l
    IN  StartupOrder[k + 1]

\* line 6: app = FastAPI()
CreateApp ==
    /\ pc = "line6"
    /\ routes' = DocsRoutes
    /\ pc' = NextLine("line6")
    /\ UNCHANGED <<exit, configChecked, templateCache, disk, inflight>>

\* app.mount("/m", StaticFiles(directory="m"), name="m"): the constructor
\* raises RuntimeError when the directory does not exist, which ends the
\* process before it serves.
Mount(line, m) ==
    /\ pc = line
    /\ IF IsDir(disk, RealPath(<<MountRoute(m).dir>>))
       THEN /\ routes' = Append(routes, MountRoute(m))
            /\ pc' = NextLine(line)
            /\ exit' = exit
       ELSE /\ routes' = routes
            /\ pc' = "aborted"
            /\ exit' = "mountError"
    /\ UNCHANGED <<configChecked, templateCache, disk, inflight>>

\* line 7
MountStatic == Mount("line7", "static")

\* line 8
MountDist == Mount("line8", "dist")

\* line 9
MountAssets == Mount("line9", "assets")

\* line 10: templates = Jinja2Templates(directory="templates"); the
\* environment starts with an empty cache, the directory is not checked.
CreateTemplates ==
    /\ pc = "line10"
    /\ templateCache' = 0
    /\ pc' = NextLine("line10")
    /\ UNCHANGED <<exit, routes, configChecked, disk, inflight>>

\* lines 12-13: @app.get("/") registers root
RegisterRoot ==
    /\ pc = "line12"
    /\ routes' = Append(routes, RootRoute)
    /\ pc' = NextLine("line12")
    /\ UNCHANGED <<exit, configChecked, templateCache, disk, inflight>>

\* lines 16-17: uvicorn.run binds the socket and serves
RunServe ==
    /\ pc = "line16"
    /\ pc' = "serving"
    /\ UNCHANGED <<exit, routes, configChecked, templateCache, disk, inflight>>

\* lines 16-17: uvicorn.run cannot bind the socket and exits
RunBindFail ==
    /\ pc = "line16"
    /\ pc' = "aborted"
    /\ exit' = "bindError"
    /\ UNCHANGED <<routes, configChecked, templateCache, disk, inflight>>

\* The server is told to stop and shuts down once no request is in flight.
Terminate ==
    /\ pc = "serving"
    /\ AllIdle
    /\ pc' = "stopped"
    /\ exit' = "shutdown"
    /\ UNCHANGED <<routes, configChecked, templateCache, disk, inflight>>

(***************************************************************************)
(* Serving a request                                                       *)
(***************************************************************************)
Done(p, r) == [path |-> p, stage |-> "done", resp |-> r]

\* The mount a request in flight was routed to.
MountOf(p) == routes[FirstMatch(routes, p)]

\* The path below the mount prefix.
Below(p) == SubSeq(p, Len(MountOf(p).path) + 1, Len(p))

\* A root handler that registers a route each time it runs.
ServeRouteGrowing(i, p) ==
    /\ pc = "serving"
    /\ inflight[i] = Idle
    /\ FirstMatch(routes, p) # 0
    /\ routes[FirstMatch(routes, p)].kind = "route"
    /\ LET r == routes[FirstMatch(routes, p)]
       IN  IF r.name = "root"
           THEN /\ inflight' = [inflight EXCEPT ![i] = Done(p, RootResponse(disk, templateCache))]
                /\ templateCache' = GetTemplate(disk, templateCache).cache
                /\ routes' = IF Len(routes) < 9 THEN Append(routes, Route(<<"index">>, "root")) ELSE routes
           ELSE /\ inflight' = [inflight EXCEPT ![i] = Done(p, DocsResp(r.name))]
                /\ templateCache' = templateCache
                /\ routes' = routes
    /\ UNCHANGED <<pc, exit, configChecked, disk>>

\* Router.app finds a Route: its endpoint runs. root() renders the template;
\* the documentation endpoints answer from the application's schema.
ServeRoute(i, p) ==
    /\ pc = "serving"
    /\ inflight[i] = Idle
    /\ FirstMatch(routes, p) # 0
    /\ routes[FirstMatch(routes, p)].kind = "route"
    /\ LET r == routes[FirstMatch(routes, p)]
       IN  IF r.name = "root"
           THEN /\ inflight' = [inflight EXCEPT ![i] = Done(p, RootResponse(disk, templateCache))]
                /\ templateCache' = GetTemplate(disk, templateCache).cache
           ELSE /\ inflight' = [inflight EXCEPT ![i] = Done(p, DocsResp(r.name))]
                /\ templateCache' = templateCache
    /\ UNCHANGED <<pc, exit, routes, configChecked, disk>>

\* Router.app finds a Mount: the request is handed to its StaticFiles.
EnterMount(i, p) ==
    /\ pc = "serving"
    /\ inflight[i] = Idle
    /\ FirstMatch(routes, p) # 0
    /\ routes[FirstMatch(routes, p)].kind = "mount"
    /\ inflight' = [inflight EXCEPT ![i] = [path |-> p, stage |-> "static", resp |-> NoResp]]
    /\ UNCHANGED <<pc, exit, routes, configChecked, templateCache, disk>>

\* Router.app finds no route: a redirect or 404.
ServeNoMatch(i, p) ==
    /\ pc = "serving"
    /\ inflight[i] = Idle
    /\ FirstMatch(routes, p) = 0
    /\ inflight' = [inflight EXCEPT ![i] = Done(p, NoMatchResponse(routes, p))]
    /\ UNCHANGED <<pc, exit, routes, configChecked, templateCache, disk>>

\* A StaticFiles.__call__ whose first call returns after the configuration
\* check without serving the request.
StaticCallFirstEmpty(i) ==
    /\ inflight[i].stage = "static"
    /\ LET p == inflight[i].path
           m == MountOf(p)
       IN  IF configChecked[m.name]
           THEN /\ inflight' = [inflight EXCEPT ![i].stage = "lookup"]
                /\ configChecked' = configChecked
           ELSE /\ inflight' = [inflight EXCEPT ![i] = Done(p, NotFound)]
                /\ configChecked' = [configChecked EXCEPT ![m.name] = TRUE]
    /\ UNCHANGED <<pc, exit, routes, templateCache, disk>>

\* A StaticFiles.__call__ whose failed configuration check ends the process.
StaticCallCrashing(i) ==
    /\ inflight[i].stage = "static"
    /\ LET p == inflight[i].path
           m == MountOf(p)
       IN  IF configChecked[m.name] \/ CheckConfig(disk, m.dir)
           THEN /\ inflight' = [inflight EXCEPT ![i].stage = "lookup"]
                /\ configChecked' = [configChecked EXCEPT ![m.name] = TRUE]
                /\ UNCHANGED <<pc, exit>>
           ELSE /\ inflight' = inflight
                /\ configChecked' = configChecked
                /\ pc' = "aborted"
                /\ exit' = "mountError"
    /\ UNCHANGED <<routes, templateCache, disk>>

\* StaticFiles.__call__, first part: the one-off check_config, which raises
\* RuntimeError (a 500) when the directory is gone, then config_checked = True.
StaticCall(i) ==
    /\ inflight[i].stage = "static"
    /\ LET p == inflight[i].path
           m == MountOf(p)
       IN  IF configChecked[m.name]
           THEN /\ inflight' = [inflight EXCEPT ![i].stage = "lookup"]
                /\ configChecked' = configChecked
           ELSE IF CheckConfig(disk, m.dir)
           THEN /\ inflight' = [inflight EXCEPT ![i].stage = "lookup"]
                /\ configChecked' = [configChecked EXCEPT ![m.name] = TRUE]
           ELSE /\ inflight' = [inflight EXCEPT ![i] = Done(p, ServerError)]
                /\ configChecked' = configChecked
    /\ UNCHANGED <<pc, exit, routes, templateCache, disk>>

\* StaticFiles.__call__, second part: get_path, get_response and the response.
StaticGetResponse(i) ==
    /\ inflight[i].stage = "lookup"
    /\ LET p == inflight[i].path
       IN  inflight' = [inflight EXCEPT
                          ![i] = Done(p, GetResponse(disk, MountOf(p).dir, Below(p)))]
    /\ UNCHANGED <<pc, exit, routes, configChecked, templateCache, disk>>

\* The response has been sent; the request and its context are discarded.
Send(i) ==
    /\ inflight[i].stage = "done"
    /\ inflight' = [inflight EXCEPT ![i] = Idle]
    /\ UNCHANGED <<pc, exit, routes, configChecked, templateCache, disk>>

(***************************************************************************)
(* The environment: the disk changes between requests                      *)
(***************************************************************************)
RemoveDir(m) ==
    /\ pc = "serving"
    /\ AllIdle
    /\ m \in disk.dirs
    /\ disk' = [dirs  |-> disk.dirs \ {m},
                files |-> [f \in FilePaths |->
                             IF IsPrefix(MountDir(m), f) THEN 0 ELSE disk.files[f]]]
    /\ UNCHANGED <<pc, exit, routes, configChecked, templateCache, inflight>>

MakeDir(m) ==
    /\ pc = "serving"
    /\ AllIdle
    /\ m \notin disk.dirs
    /\ disk' = [disk EXCEPT !.dirs = disk.dirs \cup {m}]
    /\ UNCHANGED <<pc, exit, routes, configChecked, templateCache, inflight>>

WriteFile(f, v) ==
    /\ pc = "serving"
    /\ AllIdle
    /\ IsDir(disk, Parent(f))
    /\ disk.files[f] # v
    /\ disk' = [disk EXCEPT !.files[f] = v]
    /\ UNCHANGED <<pc, exit, routes, configChecked, templateCache, inflight>>

RemoveFile(f) ==
    /\ pc = "serving"
    /\ AllIdle
    /\ IsFile(disk, f)
    /\ disk' = [disk EXCEPT !.files[f] = 0]
    /\ UNCHANGED <<pc, exit, routes, configChecked, templateCache, inflight>>

(***************************************************************************)
(* Specifications                                                          *)
(***************************************************************************)
InitWith(disks) ==
    /\ pc = "line6"
    /\ exit = "running"
    /\ routes = <<>>
    /\ configChecked = [m \in MountNames |-> FALSE]
    /\ templateCache = 0
    /\ disk \in disks
    /\ inflight = [i \in 1..MaxInflight |-> Idle]

Startup ==
    \/ CreateApp
    \/ MountStatic
    \/ MountDist
    \/ MountAssets
    \/ CreateTemplates
    \/ RegisterRoot
    \/ RunServe
    \/ RunBindFail

\* The server's life: startup, requests one at a time, a disk that changes
\* between requests, termination.
Init ==
    InitWith({MakeDisk(dirs, tpl, slogo, 1, 1) :
                dirs \in SUBSET MountNames, tpl \in 0..MaxVer, slogo \in 0..MaxVer})

Next ==
    \/ Startup
    \/ Terminate
    \/ \E p \in LifeRequests : AllIdle /\ ServeRoute(1, p)
    \/ \E p \in LifeRequests : AllIdle /\ EnterMount(1, p)
    \/ \E p \in LifeRequests : AllIdle /\ ServeNoMatch(1, p)
    \/ StaticCall(1)
    \/ StaticGetResponse(1)
    \/ Send(1)
    \/ \E m \in MountNames : RemoveDir(m)
    \/ \E m \in MountNames : MakeDir(m)
    \/ \E f \in {TemplateFile, StaticLogo}, v \in 1..MaxVer : WriteFile(f, v)
    \/ \E f \in {TemplateFile, StaticLogo} : RemoveFile(f)

Spec == Init /\ [][Next]_vars

\* File resolution and routing: a fixed disk, requests one at a time.
InitFiles ==
    InitWith({MakeDisk(dirs, 1, slogo, dlogo, main) :
                dirs \in {MountNames, MountNames \ {"assets"}},
                slogo \in 0..MaxVer, dlogo \in {1}, main \in 0..1})

NextFiles ==
    \/ Startup
    \/ \E p \in FileRequests : AllIdle /\ ServeRoute(1, p)
    \/ \E p \in FileRequests : AllIdle /\ EnterMount(1, p)
    \/ \E p \in FileRequests : AllIdle /\ ServeNoMatch(1, p)
    \/ StaticCall(1)
    \/ StaticGetResponse(1)
    \/ Send(1)

SpecFiles == InitFiles /\ [][NextFiles]_vars

\* Concurrent handling: a fixed disk, up to MaxInflight requests interleaved
\* at the points where StaticFiles awaits.
InitConc ==
    InitWith({MakeDisk(dirs, tpl, slogo, 1, 1) :
                dirs \in {MountNames, MountNames \ {"dist"}},
                tpl \in 0..MaxVer, slogo \in 0..MaxVer})

NextConc ==
    \/ Startup
    \/ \E i \in 1..MaxInflight, p \in ConcRequests : ServeRoute(i, p)
    \/ \E i \in 1..MaxInflight, p \in ConcRequests : EnterMount(i, p)
    \/ \E i \in 1..MaxInflight, p \in ConcRequests : ServeNoMatch(i, p)
    \/ \E i \in 1..MaxInflight : StaticCall(i)
    \/ \E i \in 1..MaxInflight : StaticGetResponse(i)
    \/ \E i \in 1..MaxInflight : Send(i)

SpecConc == InitConc /\ [][NextConc]_vars

(***************************************************************************)
(* Properties                                                              *)
(***************************************************************************)
Range(s) == {s[k] : k \in 1..Len(s)}

\* The location the URL path tail names below mount m, read as a file-system
\* path from the mount's directory.
Resolve(m, tail) == NormAbsFrom(MountDir(m), tail)

\* A request under a mount prefix: /m/r.
UnderMount(p) == Len(p) >= 2 /\ p[1] \in MountNames

Inside(p) == IsPrefix(MountDir(p[1]), Resolve(p[1], Tail(p)))

IsDone(i) == inflight[i].stage = "done"

\* C1: a request under a mount whose path holds ".." segments and resolves to
\* a location outside the mount's directory is answered 404, and the response
\* carries no file, whether or not a file exists at that location.
C1_TraversalNotFound ==
    \A i \in 1..MaxInflight :
        LET p == inflight[i].path
        IN  (IsDone(i) /\ UnderMount(p) /\ ".." \in Range(Tail(p)) /\ ~Inside(p))
            => /\ inflight[i].resp.status = 404
               /\ inflight[i].resp.kind # "file"
               /\ inflight[i].resp.file = <<>>

\* GET /static/../main.py has been answered while main.py exists.
C1_Witness ==
    /\ IsDone(1)
    /\ inflight[1].path = <<"static", "..", "main.py">>
    /\ IsFile(disk, MainPy)
    /\ inflight[1].resp.status = 404

\* C2: a request /m/r that resolves to a regular file inside directory m is
\* answered 200 with that file's bytes, read from that file of directory m.
C2_FileServed ==
    \A i \in 1..MaxInflight :
        LET p == inflight[i].path
        IN  (IsDone(i) /\ UnderMount(p) /\ Inside(p)
                /\ IsFile(disk, Resolve(p[1], Tail(p))))
            => /\ inflight[i].resp.status = 200
               /\ inflight[i].resp.kind = "file"
               /\ inflight[i].resp.file = Resolve(p[1], Tail(p))
               /\ inflight[i].resp.n = Content(disk, Resolve(p[1], Tail(p)))

\* GET /static/logo.png has been answered while static/logo.png and
\* dist/logo.png both exist with different bytes.
C2_Witness ==
    /\ IsDone(1)
    /\ inflight[1].path = <<"static", "logo.png">>
    /\ IsFile(disk, StaticLogo)
    /\ IsFile(disk, DistLogo)
    /\ Content(disk, StaticLogo) # Content(disk, DistLogo)
    /\ inflight[1].resp.n = Content(disk, StaticLogo)

\* C3: while templates/index.html is present, GET / is answered 200 with
\* content type text/html, whatever was served before.
C3_RootOk ==
    \A i \in 1..MaxInflight :
        (IsDone(i) /\ inflight[i].path = <<"">> /\ IsFile(disk, TemplateFile))
        => /\ inflight[i].resp.status = 200
           /\ inflight[i].resp.ctype = "text/html"

\* GET / has been answered from a template written after an earlier version
\* of it was cached, and after a request to a mount.
C3_Witness ==
    /\ IsDone(1)
    /\ inflight[1].path = <<"">>
    /\ IsFile(disk, TemplateFile)
    /\ Content(disk, TemplateFile) = 2
    /\ inflight[1].resp.n = 2
    /\ configChecked["static"]

\* C4: while templates/index.html is absent, GET / is answered 500 and the
\* server goes on serving.
C4_RootMissingTemplate ==
    \A i \in 1..MaxInflight :
        (IsDone(i) /\ inflight[i].path = <<"">> /\ ~IsFile(disk, TemplateFile))
        => /\ inflight[i].resp.status = 500
           /\ pc = "serving"

\* GET / has been answered after the template, once rendered and cached, was
\* removed.
C4_Witness ==
    /\ IsDone(1)
    /\ inflight[1].path = <<"">>
    /\ ~IsFile(disk, TemplateFile)
    /\ templateCache # 0
    /\ inflight[1].resp.status = 500

\* The paths of the routes main.py registers itself.
OwnRoutePaths == {<<"">>} \cup {<<m>> : m \in MountNames}

RoutePaths == {routes[k].path : k \in 1..Len(routes)}

\* C5 as stated: a request that is neither / nor under /static, /dist or
\* /assets is answered 404, and the route table holds exactly the four routes.
C5_OnlyFourRoutes ==
    /\ pc = "serving" => (Len(routes) = 4 /\ RoutePaths = OwnRoutePaths)
    /\ \A i \in 1..MaxInflight :
        LET p == inflight[i].path
        IN  (IsDone(i) /\ p # <<"">> /\ p[1] \notin MountNames)
            => inflight[i].resp.status = 404

DocsPaths == {DocsRoutes[k].path : k \in 1..Len(DocsRoutes)}

\* C5 amended: the route table holds the four documentation routes of
\* FastAPI() and the four routes of main.py; a request that is neither /, nor
\* under a mount prefix, nor a documentation path (with or without trailing
\* slashes) is answered 404.
C5_UnmatchedNotFound ==
    /\ pc = "serving" => (Len(routes) = 8 /\ RoutePaths = OwnRoutePaths \cup DocsPaths)
    /\ \A i \in 1..MaxInflight :
        LET p == inflight[i].path
        IN  (IsDone(i) /\ p # <<"">> /\ p[1] \notin MountNames
                /\ StripSlashes(p) \notin DocsPaths)
            => inflight[i].resp.status = 404

\* GET /nonexistent has been answered.
C5_Witness ==
    /\ IsDone(1)
    /\ inflight[1].path = <<"nonexistent">>
    /\ inflight[1].resp.status = 404
    /\ Len(routes) = 8

\* C6: a request /m/r that stays inside directory m, which exists, and names
\* no regular file there (a missing path or a directory) is answered 404.
C6_MissingNotFound ==
    \A i \in 1..MaxInflight :
        LET p == inflight[i].path
        IN  (IsDone(i) /\ UnderMount(p) /\ Inside(p) /\ IsDir(disk, MountDir(p[1]))
                /\ ~IsFile(disk, Resolve(p[1], Tail(p))))
            => inflight[i].resp.status = 404

\* GET /static/css, a directory, has been answered.
C6_Witness ==
    /\ IsDone(1)
    /\ inflight[1].path = <<"static", "css">>
    /\ IsDir(disk, StaticCssDir)
    /\ inflight[1].resp.status = 404

C8_RequestsWriteNothing ==
    [][ /\ inflight' # inflight => (disk' = disk /\ routes' = routes)
        /\ pc = "serving" => routes' = routes ]_vars

\* GET / has been answered and has filled the template cache.
C8_Witness ==
    /\ IsDone(1)
    /\ inflight[1].path = <<"">>
    /\ inflight[1].resp.status = 200
    /\ templateCache # 0
    /\ Len(routes) = 8

\* The response to a request served alone by a server that has served
\* nothing before.
SoloResponse(d, p) ==
    LET k == FirstMatch(routes, p)
    IN  IF k = 0 THEN NoMatchResponse(routes, p)
        ELSE IF routes[k].kind = "route"
             THEN IF routes[k].name = "root" THEN RootResponse(d, 0)
                  ELSE DocsResp(routes[k].name)
        ELSE IF ~CheckConfig(d, routes[k].dir) THEN ServerError
        ELSE GetResponse(d, routes[k].dir, SubSeq(p, Len(routes[k].path) + 1, Len(p)))

\* C9: with the disk fixed, every request handled concurrently with others
\* receives the response it would receive served alone.
C9_ResponseOfRequestAlone ==
    \A i \in 1..MaxInflight :
        IsDone(i) => inflight[i].resp = SoloResponse(disk, inflight[i].path)

\* Two requests for the same file were in flight together; the first has
\* been answered while the second, accepted before the first was checked,
\* waits for its lookup.
C9_Witness ==
    /\ IsDone(1)
    /\ inflight[1].path = <<"static", "logo.png">>
    /\ inflight[1].resp.status = 200
    /\ inflight[2].stage = "lookup"
    /\ inflight[2].path = <<"static", "..", "main.py">>

HasOwnRoutes(rt) == OwnRoutePaths \subseteq {rt[k].path : k \in 1..Len(rt)}

\* C10: the server serves, and a request is in flight, only with the three
\* mounts and the root route registered; a serving server stays serving
\* until it is terminated.
C10_RoutesBeforeServing ==
    [][ /\ pc' = "serving" => HasOwnRoutes(routes')
        /\ (\E i \in 1..MaxInflight : inflight'[i] # Idle) => HasOwnRoutes(routes')
        /\ pc = "serving" =>
            (pc' = "serving" \/ (pc' = "stopped" /\ exit' = "shutdown")) ]_vars

\* The server serves right after startup: nothing has been handled yet.
C10_Witness ==
    /\ pc = "serving"
    /\ AllIdle
    /\ templateCache = 0
    /\ \A m \in MountNames : ~configChecked[m]
    /\ Len(routes) = 8

====
